---- MODULE Spec2Model ----
(***************************************************************************)
(* Consumption tracker (MinoPlay/Tracker): the event store, its local and  *)
(* remote persistence, and the date-window / aggregation logic of the      *)
(* chart, table and overview views.                                        *)
(*                                                                         *)
(* Time.  An instant is an integer count of ticks since the JS epoch       *)
(* (UTC).  One tick stands for the resolution of a Date (1 ms in the       *)
(* program); a day is DayTicks ticks, so setHours(23,59,59,999) is the     *)
(* last tick of a local day.  The local timezone is a fixed offset tz      *)
(* (ticks east of UTC); daylight saving is not modelled.                   *)
(***************************************************************************)
EXTENDS Integers, Sequences, FiniteSets, TLC

VARIABLES
    variant,      \* which front end is loaded: "tracker" (local + remote) or "app" (remote only)
    tz,           \* local timezone offset, ticks east of UTC
    now,          \* the wall clock (Date.now())
    period,       \* value of the time-period select
    activeTab,    \* the tab button carrying class "active"
    currentData,  \* the in-memory snapshot {entries, sha}
    dom,          \* what the log, chart, table and overview containers show
    booted,       \* DOMContentLoaded has been handled
    config,       \* the in-memory configuration {token, owner, repo, mode}
    storage,      \* localStorage: the saved configuration and the local data blob
    remote,       \* the data file of each remote repository
    requests,     \* the fetch calls in flight, with the continuation awaiting each
    status,       \* the status line and the number of pending hide callbacks
    ops           \* number of user actions handled so far

page == <<variant, tz, period>>
vars == <<variant, tz, now, period, activeTab, currentData, dom,
          booted, config, storage, remote, requests, status, ops>>

----------------------------------------------------------------------------
(* Bounds and input sets *)

DayTicks == 4
MaxViewEntries == 2
MaxEntries == 2
MaxClock == 1
MaxInflight == 2
MaxOps == 4

TzOffsets == {-1, 0, 1}
Periods == {7, 30, 90, 365}
Categories == {"beer", "wine", "liquor", "smoking"}
Tabs == {"log", "table", "overview"}

Variants == {"tracker", "app"}

\* sha: null of a snapshot that has no remote revision.
NullSha == <<>>

Modes == {"local", "github"}
Repos == {"a", "b"}
Slots == 1 .. MaxInflight

\* Categories addEntry is called with: two of the category buttons and one
\* no button passes.
AddInputs == {"beer", "wine", "coffee"}

\* What the user types into the configuration form before saveConfig.
ConfigForms ==
    { [token |-> "tok", owner |-> "me", repo |-> "a"],
      [token |-> "tok", owner |-> "me", repo |-> "b"],
      [token |-> "",    owner |-> "me", repo |-> "a"] }

\* An event as addEntry creates it: the id is the decimal string of the
\* creation instant, represented by the one-element tuple of that instant.
mkEntry(t, c) == [id |-> <<t>>, timestamp |-> t, category |-> c]

at(day, hour) == day * DayTicks + hour

\* Stored events the views are exercised on: the first day of a history
\* (morning and last tick of the day), a Saturday, the last day of a 7-day
\* window and the last day of a 30-day window.
ViewEvents ==
    { mkEntry(at(0, 1), "beer"),   mkEntry(at(0, 3), "wine"),
      mkEntry(at(2, 2), "liquor"), mkEntry(at(6, 2), "smoking"),
      mkEntry(at(29, 3), "beer") }

\* Clock readings: inside the first week, after it, after the first month.
ViewNows == { at(1, 1), at(8, 2), at(40, 0) }

RECURSIVE seqsUpTo(_, _)
seqsUpTo(S, n) ==
    IF n = 0 THEN {<<>>}
    ELSE LET shorter == seqsUpTo(S, n - 1)
         IN shorter \cup {Append(s, x) : s \in shorter, x \in S}

----------------------------------------------------------------------------
(* JS Date arithmetic in local time *)

\* Day of week of 1970-01-01 (a Thursday), the origin of Date.getDay().
EpochDow == 4

\* Index of the local calendar day of instant t.
localDay(t) == (t + tz) \div DayTicks

\* date.setHours(0, 0, 0, 0)
setHoursStart(t) == localDay(t) * DayTicks - tz

\* date.setHours(23, 59, 59, 999)
setHoursEnd(t) == localDay(t) * DayTicks - tz + (DayTicks - 1)

\* date.setDate(date.getDate() + k)
addDays(t, k) == t + k * DayTicks

\* The day of week of the UTC calendar day.
getUTCDay(t) == ((t \div DayTicks) + EpochDow) % 7

\* date.getDay(): 0 = Sunday .. 6 = Saturday, of the local calendar day
getDay(t) == (localDay(t) + EpochDow) % 7

\* date.toISOString().split('T')[0]: the calendar date in UTC
isoDate(t) == t \div DayTicks

\* formatChartLabel: month and day-of-month of the local calendar day,
\* represented by the index of that local day.
formatChartLabel(t) == localDay(t)

----------------------------------------------------------------------------
(* Array helpers *)

\* Array.prototype.filter is SelectSeq.
countCat(entries, c) == Len(SelectSeq(entries, LAMBDA e : e.category = c))

\* Array.prototype.sort with comparator a.timestamp - b.timestamp
\* (stable insertion of each element after the elements not later than it).
RECURSIVE insertSorted(_, _)
insertSorted(e, s) ==
    IF s = <<>> THEN <<e>>
    ELSE IF Head(s).timestamp <= e.timestamp
         THEN <<Head(s)>> \o insertSorted(e, Tail(s))
         ELSE <<e>> \o s

\* The copy left in the order of the list.
sortAscendingUnsorted(s) == s

RECURSIVE sortAscending(_)
sortAscending(s) ==
    IF s = <<>> THEN <<>>
    ELSE insertSorted(s[Len(s)], sortAscending(SubSeq(s, 1, Len(s) - 1)))

----------------------------------------------------------------------------
(* Window: the date range shared by updateChart, renderTableView and       *)
(* renderOverview                                                          *)

\* The window whose end is the period end even when that is after today.
dateRangeUnclamped(entries, p, t) ==
    LET endOfToday == setHoursEnd(t)
    IN IF Len(entries) > 0
       THEN LET sortedEntries == sortAscending(entries)
                firstEntryDate == setHoursStart(sortedEntries[1].timestamp)
            IN [startDate |-> firstEntryDate,
                endDate |-> addDays(firstEntryDate, p - 1)]
       ELSE [startDate |-> addDays(t, 0 - p), endDate |-> endOfToday]

dateRange(entries, p, t) ==
    LET endOfToday == setHoursEnd(t)
    IN IF Len(entries) > 0
       THEN LET sortedEntries == sortAscending(entries)
                firstEntryDate == setHoursStart(sortedEntries[1].timestamp)
                periodEndDate == addDays(firstEntryDate, p - 1)
            IN [startDate |-> firstEntryDate,
                endDate |-> IF periodEndDate < endOfToday
                            THEN periodEndDate ELSE endOfToday]
       ELSE [startDate |-> addDays(t, 0 - p), endDate |-> endOfToday]

filterEntries(entries, w) ==
    SelectSeq(entries, LAMBDA e : e.timestamp >= w.startDate
                                  /\ e.timestamp <= w.endDate)

----------------------------------------------------------------------------
(* Bucketizer *)

\* The values `current` takes in a loop
\*   while (current <= endDate) { ...; current.setDate(current.getDate() + step) }
\* in order: current, current + step days, ... while not after endDate.
loopDatesExclusive(current, endDate, step) ==
    IF current < endDate
    THEN [k \in 1 .. ((endDate - current - 1) \div (step * DayTicks)) + 1
              |-> addDays(current, (k - 1) * step)]
    ELSE <<>>

loopDates(current, endDate, step) ==
    IF current <= endDate
    THEN [k \in 1 .. ((endDate - current) \div (step * DayTicks)) + 1
              |-> addDays(current, (k - 1) * step)]
    ELSE <<>>

\* One labelled bucket per loop date; groups[k] is the entries of bucket k.
buckets(dates, groups) ==
    [labels |-> [k \in DOMAIN dates |-> formatChartLabel(dates[k])],
     beer |-> [k \in DOMAIN dates |-> countCat(groups[k], "beer")],
     wine |-> [k \in DOMAIN dates |-> countCat(groups[k], "wine")],
     liquor |-> [k \in DOMAIN dates |-> countCat(groups[k], "liquor")],
     smoking |-> [k \in DOMAIN dates |-> countCat(groups[k], "smoking")]]

\* The entries aggregateByDay puts in the bucket of `current`.
dayEntries(entries, current) ==
    SelectSeq(entries, LAMBDA e : isoDate(e.timestamp) = isoDate(current))

aggregateByDay(entries, startDate, endDate) ==
    LET dates == loopDates(setHoursStart(startDate), endDate, 1)
    IN buckets(dates, [k \in DOMAIN dates |-> dayEntries(entries, dates[k])])

\* The entries aggregateByWeek puts in the bucket starting at `current`.
weekEntries(entries, current) ==
    LET weekEnd == addDays(current, 6)
    IN SelectSeq(entries, LAMBDA e : e.timestamp >= current
                                     /\ e.timestamp <= weekEnd)

\* Week buckets that start on the day of startDate itself.
aggregateByWeekFromStart(entries, startDate, endDate) ==
    LET dates == loopDates(setHoursStart(startDate), endDate, 7)
    IN buckets(dates, [k \in DOMAIN dates |-> weekEntries(entries, dates[k])])

aggregateByWeek(entries, startDate, endDate) ==
    LET midnight == setHoursStart(startDate)
        dayOfWeek == getDay(midnight)
        dates == loopDates(addDays(midnight, 0 - dayOfWeek), endDate, 7)
    IN buckets(dates, [k \in DOMAIN dates |-> weekEntries(entries, dates[k])])

----------------------------------------------------------------------------
(* Statistics *)

categoryStats(entries) ==
    [beer |-> countCat(entries, "beer"),
     wine |-> countCat(entries, "wine"),
     liquor |-> countCat(entries, "liquor"),
     smoking |-> countCat(entries, "smoking")]

\* renderSummaryStats of the local/remote front end
renderSummaryStats(entries) ==
    LET stats == categoryStats(entries)
    IN [stats |-> stats,
        total |-> stats.beer + stats.wine + stats.liquor + stats.smoking]

\* renderSummaryStats of the remote-only front end (app.js)
appRenderSummaryStats(entries) ==
    LET stats == categoryStats(entries)
    IN [stats |-> stats,
        total |-> stats.beer + stats.wine + stats.wine + stats.liquor
                  + stats.smoking]

\* Math.ceil(a / b) for b > 0
ceilDiv(a, b) == 0 - ((0 - a) \div b)

trackedDays(w) == ceilDiv(w.endDate - w.startDate, DayTicks) + 1

isWeekend(t) == getDay(t) = 0 \/ getDay(t) = 6

\* weekdayCount / weekendCount of renderOverview
countDays(startDate, endDate) ==
    LET dates == loopDates(startDate, endDate, 1)
    IN [weekendCount |-> Len(SelectSeq(dates, isWeekend)),
        weekdayCount |-> Len(SelectSeq(dates, LAMBDA d : ~isWeekend(d)))]

----------------------------------------------------------------------------
(* Views *)

updateChart(entries, p, t) ==
    LET w == dateRange(entries, p, t)
        filteredEntries == filterEntries(entries, w)
    IN [rendered |-> TRUE,
        startDate |-> w.startDate,
        endDate |-> w.endDate,
        period |-> p,
        filteredEntries |-> filteredEntries,
        data |-> IF p <= 30
                 THEN aggregateByDay(filteredEntries, w.startDate, w.endDate)
                 ELSE aggregateByWeek(filteredEntries, w.startDate, w.endDate),
        summary |-> renderSummaryStats(filteredEntries)]

\* updateChart of app.js: the window is the last `period` days up to now.
appUpdateChart(entries, p, t) ==
    LET w == [startDate |-> addDays(t, 0 - p), endDate |-> t]
        filteredEntries == filterEntries(entries, w)
    IN [rendered |-> TRUE,
        startDate |-> w.startDate,
        endDate |-> w.endDate,
        period |-> p,
        filteredEntries |-> filteredEntries,
        data |-> IF p <= 30
                 THEN aggregateByDay(filteredEntries, w.startDate, w.endDate)
                 ELSE aggregateByWeek(filteredEntries, w.startDate, w.endDate),
        summary |-> appRenderSummaryStats(filteredEntries)]

\* One row of the table for the day starting at `current`.
tableRow(entries, current) ==
    LET s == categoryStats(dayEntries(entries, current))
    IN [date |-> current, beer |-> s.beer, wine |-> s.wine,
        liquor |-> s.liquor, smoking |-> s.smoking,
        total |-> s.beer + s.wine + s.liquor + s.smoking]

\* dailyData: the rows of the loop dates that have a positive total.
tableRows(entries, startDate, endDate) ==
    LET dates == loopDates(setHoursStart(startDate), endDate, 1)
    IN SelectSeq([k \in DOMAIN dates |-> tableRow(entries, dates[k])],
                 LAMBDA row : row.total > 0)

renderTableView(entries, p, t) ==
    LET w == dateRange(entries, p, t)
        filteredEntries == filterEntries(entries, w)
    IN [rendered |-> TRUE,
        startDate |-> w.startDate,
        endDate |-> w.endDate,
        filteredEntries |-> filteredEntries,
        dailyData |-> tableRows(filteredEntries, w.startDate, w.endDate)]

renderOverview(entries, p, t) ==
    LET w == dateRange(entries, p, t)
        filteredEntries == filterEntries(entries, w)
        weekdayEntries == SelectSeq(filteredEntries,
                              LAMBDA e : getDay(e.timestamp) # 0
                                         /\ getDay(e.timestamp) # 6)
        weekendEntries == SelectSeq(filteredEntries,
                              LAMBDA e : getDay(e.timestamp) = 0
                                         \/ getDay(e.timestamp) = 6)
        stats == categoryStats(filteredEntries)
        weekdayStats == categoryStats(weekdayEntries)
        weekendStats == categoryStats(weekendEntries)
        counts == countDays(w.startDate, w.endDate)
    IN [rendered |-> TRUE,
        startDate |-> w.startDate,
        endDate |-> w.endDate,
        filteredEntries |-> filteredEntries,
        stats |-> stats,
        weekdayStats |-> weekdayStats,
        weekendStats |-> weekendStats,
        total |-> stats.beer + stats.wine + stats.liquor + stats.smoking,
        weekdayTotal |-> weekdayStats.beer + weekdayStats.wine
                         + weekdayStats.liquor + weekdayStats.smoking,
        weekendTotal |-> weekendStats.beer + weekendStats.wine
                         + weekendStats.liquor + weekendStats.smoking,
        days |-> trackedDays(w),
        weekdayCount |-> counts.weekdayCount,
        weekendCount |-> counts.weekendCount]

----------------------------------------------------------------------------
(* Program state threaded through a handler and the calls it makes         *)

prog == [config |-> config, currentData |-> currentData, storage |-> storage,
         requests |-> requests, status |-> status, dom |-> dom,
         blocked |-> FALSE]

becomes(S) ==
    /\ S.blocked = FALSE
    /\ config' = S.config
    /\ currentData' = S.currentData
    /\ storage' = S.storage
    /\ requests' = S.requests
    /\ status' = S.status
    /\ dom' = S.dom

isConfigured(c) == c.token # "" /\ c.owner # "" /\ c.repo # ""

showStatus(S, message, type) ==
    [S EXCEPT !.status =
        [message |-> message, type |-> type, hidden |-> FALSE,
         \* setTimeout(..., 3000): one more hide callback is pending
         timers |-> IF type = "success" THEN S.status.timers + 1
                    ELSE S.status.timers]]

\* Array.prototype.sort with comparator b.timestamp - a.timestamp
RECURSIVE insertSortedDesc(_, _)
insertSortedDesc(e, s) ==
    IF s = <<>> THEN <<e>>
    ELSE IF Head(s).timestamp >= e.timestamp
         THEN <<Head(s)>> \o insertSortedDesc(e, Tail(s))
         ELSE <<e>> \o s

RECURSIVE sortDescending(_)
sortDescending(s) ==
    IF s = <<>> THEN <<>>
    ELSE insertSortedDesc(s[Len(s)], sortDescending(SubSeq(s, 1, Len(s) - 1)))

renderEntries(entries) ==
    [rendered |-> TRUE, entries |-> sortDescending(entries)]

renderAll(S) ==
    LET entries == S.currentData.entries
    IN [S EXCEPT !.dom =
           [log |-> renderEntries(entries),
            chart |-> updateChart(entries, period, now),
            table |-> IF activeTab = "table"
                      THEN renderTableView(entries, period, now) ELSE @.table,
            overview |-> IF activeTab = "overview"
                         THEN renderOverview(entries, period, now) ELSE @.overview]]

----------------------------------------------------------------------------
(* Remote persistence: requests and responses                              *)

idle == [state |-> "idle"]

hasFreeSlot(S) == \E i \in Slots : S.requests[i].state = "idle"
freeSlot(S) == CHOOSE i \in Slots : /\ S.requests[i].state = "idle"
                                     /\ \A j \in 1 .. i - 1 : S.requests[j].state # "idle"

\* githubRequest up to `await fetch(url, options)`: the call is in flight
\* with the url and the credential read from config at this moment.
\* origin is the frame awaiting it: the calling function with its locals
\* (the entry of addEntry, the id of deleteEntry) and, for the saveData
\* awaited in the catch block of loadData, the error caught there.
githubRequest(S, method, body, origin) ==
    IF hasFreeSlot(S)
    THEN [S EXCEPT !.requests[freeSlot(S)] =
             [state |-> "sent", method |-> method, origin |-> origin,
              token |-> S.config.token, owner |-> S.config.owner,
              repo |-> S.config.repo, body |-> body]]
    ELSE [S EXCEPT !.blocked = TRUE]

noBody == [entries |-> <<>>, sha |-> NullSha]

\* A string is a sequence of pieces; a piece is one digit or a digit-free text.
NotFoundDigits == <<"4", "0", "4">>

httpError(statusDigits, text) ==
    [ok |-> FALSE, network |-> FALSE, status |-> statusDigits, text |-> text]

networkError == [ok |-> FALSE, network |-> TRUE, status |-> <<>>,
                 text |-> <<"Failed to fetch">>]

notFound == httpError(NotFoundDigits, <<"Not Found">>)
unauthorized == httpError(<<"4", "0", "1">>, <<"Bad credentials">>)
conflict == httpError(<<"4", "0", "9">>, <<"does not match">>)

\* Failures any request can meet whatever the state of the repository.
TransientFailures ==
    { networkError,
      httpError(<<"4", "0", "3">>, <<"rate limit exceeded, request ID E", "4", "0", "4", ":1A2B">>) }

\* error.message of the Error githubRequest throws (or fetch rejects with)
errorMessage(r) ==
    IF r.network THEN r.text
    ELSE <<"GitHub API error: ">> \o r.status \o <<" - ">> \o r.text

\* String.prototype.includes
includes(str, pattern) ==
    \E i \in 1 .. Len(str) - Len(pattern) + 1 :
        SubSeq(str, i, i + Len(pattern) - 1) = pattern

\* The blob sha the contents API reports for a file content.
shaOf(entries) == <<entries>>

absent == [exists |-> FALSE]
fileOf(entries) == [exists |-> TRUE, entries |-> entries, sha |-> shaOf(entries)]

reachable(r) == r.token # "" /\ r.owner # "" /\ r.repo \in Repos

\* The responses the contents API can give to request r, each with the
\* repository state it leaves.
outcomes(r) ==
    LET keep(resp) == [response |-> resp, remote |-> remote]
        write == [response |-> [ok |-> TRUE, entries |-> r.body.entries,
                                sha |-> shaOf(r.body.entries)],
                  remote |-> [remote EXCEPT ![r.repo] = fileOf(r.body.entries)]]
    IN {keep(f) : f \in TransientFailures} \cup
       ( IF r.token = "" THEN {keep(unauthorized)}
         ELSE IF ~reachable(r) THEN {keep(notFound)}
         ELSE LET file == remote[r.repo]
              IN IF r.method = "GET"
                 THEN IF file.exists
                      THEN {keep([ok |-> TRUE, entries |-> file.entries,
                                  sha |-> file.sha])}
                      ELSE {keep(notFound)}
                 ELSE IF file.exists
                      THEN IF r.body.sha = file.sha THEN {write}
                           ELSE {keep(conflict)}
                      ELSE IF r.body.sha = NullSha THEN {write}
                           \* a revision sent for a file that does not exist
                           ELSE {write, keep(conflict)} )

----------------------------------------------------------------------------
(* Persistence operations                                                  *)

\* JSON.stringify(currentData): the text lists, per entry, the values of
\* id, timestamp and category in key order, then the value of sha.
stringify(data) ==
    [entries |-> [k \in DOMAIN data.entries |->
                     <<data.entries[k].id, data.entries[k].timestamp,
                       data.entries[k].category>>],
     sha |-> data.sha]

\* JSON.parse of such a text
parse(text) ==
    [entries |-> [k \in DOMAIN text.entries |->
                     [id |-> text.entries[k][1],
                      timestamp |-> text.entries[k][2],
                      category |-> text.entries[k][3]]],
     sha |-> text.sha]

\* A saveDataLocal that renders and reports without writing the blob.
saveDataLocalUnwritten(S) ==
    showStatus(renderAll(S), "Saved locally", "success")

saveDataLocal(S) ==
    showStatus(
        renderAll([S EXCEPT !.storage.data =
                      [present |-> TRUE, text |-> stringify(S.currentData)]]),
        "Saved locally", "success")

\* saveData up to its await (remote mode) or to its return (local mode)
saveData(S, entries, origin) ==
    IF S.config.mode = "local"
    THEN saveDataLocal([S EXCEPT !.currentData.entries = entries])
    ELSE githubRequest(showStatus(S, "Saving...", "info"), "PUT",
                       [entries |-> entries, sha |-> S.currentData.sha], origin)

\* A saveData that shows the entries it was called with even when the PUT fails.
saveDataResumeOptimistic(S, r, resp) ==
    showStatus(renderAll([S EXCEPT !.currentData.entries = r.body.entries]),
               IF resp.ok THEN "Saved successfully" ELSE "Error saving",
               IF resp.ok THEN "success" ELSE "error")

\* saveData after its await: the try block's tail or the catch block
saveDataResume(S, r, resp) ==
    IF resp.ok
    THEN showStatus(
             renderAll([S EXCEPT !.currentData =
                           [entries |-> r.body.entries, sha |-> resp.sha]]),
             "Saved successfully", "success")
    ELSE showStatus(S, "Error saving", "error")

loadDataLocal(S) ==
    renderAll([S EXCEPT !.currentData =
                  IF S.storage.data.present
                  THEN parse(S.storage.data.text)
                  ELSE [entries |-> <<>>, sha |-> NullSha]])

\* loadData up to its await (remote mode) or to its return
loadData(S) ==
    IF S.config.mode = "local" THEN loadDataLocal(S)
    ELSE IF ~isConfigured(S.config)
    THEN showStatus(S, "Please configure GitHub settings first", "error")
    ELSE githubRequest(showStatus(S, "Loading data...", "info"), "GET",
                       noBody, [caller |-> "loadData"])

\* loadData after its await: the try block's tail or the catch block
loadDataResume(S, resp) ==
    IF resp.ok
    THEN showStatus(
             renderAll([S EXCEPT !.currentData =
                           [entries |-> resp.entries, sha |-> resp.sha]]),
             "Data loaded successfully", "success")
    ELSE IF includes(errorMessage(resp), NotFoundDigits)
    THEN saveData(S, <<>>, [caller |-> "loadData", error |-> resp])
    ELSE showStatus(S, "Error loading data", "error")

----------------------------------------------------------------------------
(* Handlers                                                                *)

blank == [rendered |-> FALSE]
blankDom == [log |-> blank, chart |-> blank, table |-> blank, overview |-> blank]

defaultConfig == [token |-> "", owner |-> "", repo |-> "", mode |-> "local"]
emptyStorage == [config |-> [present |-> FALSE], data |-> [present |-> FALSE]]
noStatus == [message |-> "", type |-> "info", hidden |-> TRUE, timers |-> 0]

Init ==
    /\ variant = "tracker"
    /\ tz = 0
    /\ now = 0
    /\ period = 7
    /\ activeTab = "log"
    /\ currentData = [entries |-> <<>>, sha |-> NullSha]
    /\ dom = blankDom
    /\ booted = FALSE
    /\ config = defaultConfig
    /\ storage = emptyStorage
    /\ remote \in [Repos -> {absent, fileOf(<<mkEntry(0, "beer")>>)}]
    /\ remote["b"] = absent
    /\ requests = [i \in Slots |-> idle]
    /\ status = noStatus
    /\ ops = 0

\* One more user action (a click or a form submission) is handled.
userAction == ops < MaxOps /\ ops' = ops + 1

\* loadConfig
loadConfig(S) ==
    IF S.storage.config.present
    THEN [S EXCEPT !.config = S.storage.config.value]
    ELSE [S EXCEPT !.config.mode = "local"]

\* The DOMContentLoaded listener
DOMContentLoaded ==
    /\ ~booted
    /\ booted' = TRUE
    /\ LET S == loadConfig(prog)
       IN becomes(IF S.config.mode = "local" \/ isConfigured(S.config)
                  THEN loadData(S) ELSE S)
    /\ UNCHANGED <<page, now, activeTab, remote, ops>>

saveConfig(form) ==
    LET S == [prog EXCEPT !.config.token = form.token,
                          !.config.owner = form.owner,
                          !.config.repo = form.repo]
    IN IF ~isConfigured(S.config)
       THEN showStatus(S, "Please fill in all configuration fields", "error")
       ELSE loadData(showStatus(
                [S EXCEPT !.storage.config = [present |-> TRUE, value |-> S.config]],
                "Configuration saved!", "success"))

SaveConfig ==
    /\ booted
    /\ userAction
    /\ \E form \in ConfigForms : becomes(saveConfig(form))
    /\ UNCHANGED <<page, now, activeTab, remote, booted>>

setMode(mode) ==
    LET S == [prog EXCEPT !.config.mode = mode]
    IN loadData([S EXCEPT !.storage.config = [present |-> TRUE, value |-> S.config]])

SetMode ==
    /\ booted
    /\ userAction
    /\ \E mode \in Modes : becomes(setMode(mode))
    /\ UNCHANGED <<page, now, activeTab, remote, booted>>

addEntry(category) ==
    IF config.mode # "local" /\ ~isConfigured(config)
    THEN showStatus(prog, "Please configure GitHub settings first", "error")
    ELSE LET entry == mkEntry(now, category)
         IN saveData(prog, Append(currentData.entries, entry),
                     [caller |-> "addEntry", entry |-> entry])

AddEntry ==
    /\ booted
    /\ userAction
    /\ Len(currentData.entries) < MaxEntries
    /\ \E category \in AddInputs : becomes(addEntry(category))
    /\ UNCHANGED <<page, now, activeTab, remote, booted>>

\* deleteEntry once the confirm dialog is accepted
deleteEntry(id) ==
    saveData(prog, SelectSeq(currentData.entries, LAMBDA e : e.id # id),
             [caller |-> "deleteEntry", id |-> id])

\* Ids a delete can be asked for: those of the stored events and one no
\* stored event has.
DeleteInputs == {currentData.entries[i].id : i \in DOMAIN currentData.entries}
                    \cup {<<0 - 1>>}

DeleteEntry ==
    /\ booted
    /\ userAction
    /\ \E id \in DeleteInputs : becomes(deleteEntry(id))
    /\ UNCHANGED <<page, now, activeTab, remote, booted>>

\* The lists generateDummyData can draw, up to MaxEntries events: entries
\* of the day `i` days before today at hour tick h (10:00 or later), with
\* id `${date.getTime()}-${j}`, represented by the pair of time and j.
dummyHours == {h \in 0 .. DayTicks - 1 : h * 24 >= 10 * DayTicks}

dummyEntry(i, h, j, c) ==
    LET t == setHoursStart(addDays(now, 0 - i)) + h
    IN [id |-> <<t, j>>, timestamp |-> t, category |-> c]

DummyData ==
    {<<>>}
    \cup {<<dummyEntry(29, h, 0, "beer")>> : h \in dummyHours}
    \cup {<<dummyEntry(1, h, 0, "liquor"), dummyEntry(1, h, 1, "smoking")>> :
             h \in dummyHours}

generateDummyData(entries) ==
    showStatus(saveDataLocal([prog EXCEPT !.currentData.entries = entries]),
               "Sample data generated!", "success")

\* The local controls are displayed in local mode only (updateModeUI).
GenerateDummyData ==
    /\ booted
    /\ userAction
    /\ config.mode = "local"
    /\ \E entries \in DummyData : becomes(generateDummyData(entries))
    /\ UNCHANGED <<page, now, activeTab, remote, booted>>

\* clearLocalData once the confirm dialog is accepted
clearLocalData ==
    showStatus(
        renderAll([prog EXCEPT !.currentData.entries = <<>>,
                               !.storage.data = [present |-> FALSE]]),
        "All data cleared", "success")

ClearLocalData ==
    /\ booted
    /\ userAction
    /\ config.mode = "local"
    /\ becomes(clearLocalData)
    /\ UNCHANGED <<page, now, activeTab, remote, booted>>

switchTab(tabName) ==
    IF tabName = "table"
    THEN [dom EXCEPT !.table = renderTableView(currentData.entries, period, now)]
    ELSE IF tabName = "overview"
    THEN [dom EXCEPT !.overview = renderOverview(currentData.entries, period, now)]
    ELSE dom

SwitchTab ==
    /\ booted
    /\ variant = "tracker"
    /\ \E tabName \in Tabs :
        /\ activeTab' = tabName
        /\ dom' = switchTab(tabName)
    /\ UNCHANGED <<page, now, currentData, booted, config, storage, remote,
                   requests, status, ops>>

\* The wall clock advances.
Tick ==
    /\ now < MaxClock
    /\ now' = now + 1
    /\ UNCHANGED <<page, activeTab, currentData, dom, booted, config, storage,
                   remote, requests, status, ops>>

\* The contents API serves a request in flight.
Respond ==
    \E i \in Slots :
        /\ requests[i].state = "sent"
        /\ \E o \in outcomes(requests[i]) :
            /\ requests' = [requests EXCEPT ![i] =
                               [requests[i] EXCEPT !.state = "answered"]
                                   @@ [response |-> o.response]]
            /\ remote' = o.remote
        /\ UNCHANGED <<page, now, activeTab, currentData, dom, booted, config,
                       storage, status, ops>>

\* The awaited fetch settles and the function awaiting it runs to its end
\* (or to its next await).
Resume ==
    \E i \in Slots :
        /\ requests[i].state = "answered"
        /\ LET r == requests[i]
               S == [prog EXCEPT !.requests[i] = idle]
           IN becomes(IF r.method = "GET"
                      THEN loadDataResume(S, r.response)
                      ELSE saveDataResume(S, r, r.response))
        /\ UNCHANGED <<page, now, activeTab, remote, booted, ops>>

Next ==
    \/ DOMContentLoaded
    \/ SaveConfig
    \/ SetMode
    \/ AddEntry
    \/ DeleteEntry
    \/ GenerateDummyData
    \/ ClearLocalData
    \/ Tick
    \/ Respond
    \/ Resume

Spec == Init /\ [][Next]_vars

\* The user waits for the request in flight before the next action: the
\* runs of Spec in which user actions are never concurrent with a request.
quiet == \A i \in Slots : requests[i] = idle

SerialNext ==
    \/ DOMContentLoaded
    \/ quiet /\ SaveConfig
    \/ quiet /\ SetMode
    \/ quiet /\ AddEntry
    \/ quiet /\ DeleteEntry
    \/ quiet /\ GenerateDummyData
    \/ quiet /\ ClearLocalData
    \/ Tick
    \/ Respond
    \/ Resume

SerialSpec == Init /\ [][SerialNext]_vars

\* A callback scheduled by showStatus runs, 3000 ms after a success message.
TimerFires ==
    /\ status.timers > 0
    /\ status' = [status EXCEPT !.hidden = TRUE, !.timers = @ - 1]
    /\ UNCHANGED <<page, now, activeTab, currentData, dom, booted, config,
                   storage, remote, requests, ops>>

\* The page with the hide callbacks of the status line running.
TimerNext == SerialNext \/ TimerFires

TimerSpec == Init /\ [][TimerNext]_vars

\* Adds and deletes may overlap one another's saves, but the user waits for
\* a load to finish before editing and for every request before changing
\* the configuration or the mode.
noLoad ==
    \A j \in Slots :
        IF requests[j] = idle THEN TRUE
        ELSE /\ requests[j].method = "PUT"
             /\ requests[j].origin.caller \in {"addEntry", "deleteEntry"}

EditNext ==
    \/ DOMContentLoaded
    \/ quiet /\ SaveConfig
    \/ quiet /\ SetMode
    \/ noLoad /\ AddEntry
    \/ noLoad /\ DeleteEntry
    \/ quiet /\ GenerateDummyData
    \/ quiet /\ ClearLocalData
    \/ Tick
    \/ Respond
    \/ Resume

EditSpec == Init /\ [][EditNext]_vars

----------------------------------------------------------------------------
(* The views as functions of a stored event list: every event list, clock, *)
(* timezone and period of the input sets, rendered by each view.           *)

ViewInit ==
    /\ variant \in Variants
    /\ tz \in TzOffsets
    /\ now \in ViewNows
    /\ period \in Periods
    /\ activeTab = "log"
    /\ currentData \in [entries : seqsUpTo(ViewEvents, MaxViewEntries),
                        sha : {NullSha}]
    /\ dom = blankDom
    /\ booted = TRUE
    /\ config = defaultConfig
    /\ storage = emptyStorage
    /\ remote = [r \in Repos |-> absent]
    /\ requests = [i \in Slots |-> idle]
    /\ status = noStatus
    /\ ops = 0

machine == <<booted, config, storage, remote, requests, status, ops>>

ViewUpdateChart ==
    /\ variant = "tracker"
    /\ dom' = [dom EXCEPT !.chart = updateChart(currentData.entries, period, now)]
    /\ UNCHANGED <<page, now, activeTab, currentData, machine>>

ViewAppUpdateChart ==
    /\ variant = "app"
    /\ dom' = [dom EXCEPT !.chart = appUpdateChart(currentData.entries, period, now)]
    /\ UNCHANGED <<page, now, activeTab, currentData, machine>>

ViewNext == ViewUpdateChart \/ ViewAppUpdateChart \/ SwitchTab

ViewSpec == ViewInit /\ [][ViewNext]_vars

----------------------------------------------------------------------------
(* Properties of the window and of the aggregation (under ViewSpec)        *)

RECURSIVE sumSeq(_)
sumSeq(s) == IF s = <<>> THEN 0 ELSE Head(s) + sumSeq(Tail(s))

\* Calendar notions stated directly, not through the Date operations above.
midnightOf(t) == CHOOSE m \in (t - DayTicks + 1) .. t : (m + tz) % DayTicks = 0
endOfDayOf(t) == midnightOf(t) + DayTicks - 1
stamps(entries) == {entries[i].timestamp : i \in DOMAIN entries}
earliest(entries) == CHOOSE t \in stamps(entries) : \A u \in stamps(entries) : t <= u

trackerChart == variant = "tracker" /\ dom.chart.rendered
stored == currentData.entries

\* C1: the per-category counts summed over all buckets of the chart equal the
\* per-category totals of the summary over the same filtered events.
C1_BucketSumsEqualSummary ==
    trackerChart =>
        \A c \in Categories : sumSeq(dom.chart.data[c]) = dom.chart.summary.stats[c]

\* C2: with a non-empty store the window starts at local midnight of the day
\* of the earliest stored event, whatever the order of the list.
C2_StartIsDayOfEarliest ==
    (trackerChart /\ Len(stored) > 0) =>
        dom.chart.startDate = midnightOf(earliest(stored))

C2_Witness ==
    /\ trackerChart
    /\ Len(stored) = 2
    /\ stored[2].timestamp < stored[1].timestamp
    /\ midnightOf(stored[2].timestamp) # midnightOf(stored[1].timestamp)
    /\ dom.chart.startDate = midnightOf(stored[2].timestamp)

\* The case of C3: the period end (first day + period - 1 days) lies before
\* the end of today.
periodEndBeforeToday ==
    /\ Len(stored) > 0
    /\ midnightOf(earliest(stored)) + (dom.chart.period - 1) * DayTicks < endOfDayOf(now)

lastWindowDay == midnightOf(earliest(stored)) + (dom.chart.period - 1) * DayTicks

\* C3: when the period end lies before the end of today, the window ends at
\* the last tick of that calendar day, so every stored event of the last
\* calendar day of the window passes the window filter.
C3_EndIsEndOfLastDay ==
    (trackerChart /\ periodEndBeforeToday) =>
        /\ dom.chart.endDate = lastWindowDay + DayTicks - 1
        /\ \A i \in DOMAIN stored :
              midnightOf(stored[i].timestamp) = lastWindowDay =>
                  \E j \in DOMAIN dom.chart.filteredEntries :
                      dom.chart.filteredEntries[j] = stored[i]

\* C4: the window satisfies start <= end for every stored event list,
\* events dated after now included.
C4_StartNotAfterEnd ==
    trackerChart => dom.chart.startDate <= dom.chart.endDate

\* C5: the window end is never later than the last tick of today.
C5_EndNotAfterToday ==
    trackerChart => dom.chart.endDate <= endOfDayOf(now)

C5_Witness ==
    /\ trackerChart
    /\ Len(stored) > 0
    /\ lastWindowDay > endOfDayOf(now)
    /\ dom.chart.endDate = endOfDayOf(now)

\* C6: in day mode every bucket counts exactly the filtered events whose
\* local calendar day is the day of its label, and every filtered event's
\* local day has a bucket.
C6_DayBucketIsLocalDay ==
    (trackerChart /\ dom.chart.period <= 30) =>
        LET d == dom.chart.data
            f == dom.chart.filteredEntries
        IN /\ \A k \in DOMAIN d.labels : \A c \in Categories :
                 d[c][k] = Cardinality({i \in DOMAIN f :
                                /\ f[i].category = c
                                /\ (f[i].timestamp + tz) \div DayTicks = d.labels[k]})
           /\ \A i \in DOMAIN f : \E k \in DOMAIN d.labels :
                 d.labels[k] = (f[i].timestamp + tz) \div DayTicks

\* C7: the grand total shown is beer + wine + liquor + smoking of the
\* filtered events, in both front ends.
C7_TotalIsSumOfFour ==
    dom.chart.rendered =>
        LET f == dom.chart.filteredEntries
        IN dom.chart.summary.total =
               Cardinality({i \in DOMAIN f : f[i].category \in Categories})

\* C8: the `days` figure of the overview equals the number of calendar days
\* from window start to window end inclusive, weekdayCount + weekendCount.
C8_DaysIsInclusiveCount ==
    dom.overview.rendered =>
        dom.overview.days = dom.overview.weekdayCount + dom.overview.weekendCount

----------------------------------------------------------------------------
(* Properties of loading from the remote repository (under SerialSpec)     *)

\* The awaited response of slot i is handed to its continuation in this step.
resumed(i) == requests[i].state = "answered" /\ requests'[i] # requests[i]

\* A request is put in flight in slot j in this step.
issued(j) == requests'[j].state = "sent" /\ requests'[j] # requests[j]

failedGet(i) ==
    /\ requests[i].state = "answered"
    /\ requests[i].method = "GET"
    /\ ~requests[i].response.ok

isNotFound(resp) == ~resp.network /\ resp.status = NotFoundDigits

\* The PUT of slot i is the one loadData issued on catching an HTTP 404.
recoveryPut(i) ==
    /\ requests[i].state = "answered"
    /\ requests[i].method = "PUT"
    /\ requests[i].origin.caller = "loadData"
    /\ isNotFound(requests[i].origin.error)

\* The repository took the write up: it stored it, or refused it on its revision.
processed(resp) == resp.ok \/ resp = conflict

\* C9: once the PUT of an empty entries array that loadData issues after an
\* HTTP 404 has been processed by the repository, the in-memory store is
\* empty, whatever entries and revision the snapshot held before the load.
C9_NotFoundRecoveryEmptiesStore ==
    [][\A i \in Slots :
          (/\ recoveryPut(i)
           /\ requests[i].body.entries = <<>>
           /\ processed(requests[i].response)
           /\ resumed(i)) => currentData'.entries = <<>>]_vars

\* C10: when the GET of loadData fails with a network error or an HTTP
\* status other than 404, whatever the text of the error body, the error is
\* shown, no request is issued and the in-memory snapshot is unchanged.
C10_OtherFailureIsSurfaced ==
    [][\A i \in Slots :
          (failedGet(i) /\ ~isNotFound(requests[i].response) /\ resumed(i)) =>
              /\ status'.type = "error"
              /\ currentData' = currentData
              /\ \A j \in Slots : ~issued(j)]_vars

----------------------------------------------------------------------------
(* Properties of saving to the remote repository (under SerialSpec)        *)

failedPut(i) ==
    /\ requests[i].state = "answered"
    /\ requests[i].method = "PUT"
    /\ ~requests[i].response.ok

\* C11: when the PUT of saveData fails (revision conflict or any other
\* error), an error status is shown and the in-memory snapshot (entries and
\* sha) and the visible event list are left as they were.
C11_FailedPutLeavesSnapshot ==
    [][\A i \in Slots :
          (failedPut(i) /\ resumed(i)) =>
              /\ status'.type = "error"
              /\ currentData' = currentData
              /\ dom'.log = dom.log]_vars

\* A save of a changed event list has failed against a loaded snapshot.
C11_Witness ==
    /\ status.message = "Error saving"
    /\ status.type = "error"
    /\ quiet
    /\ currentData.sha # NullSha
    /\ Len(currentData.entries) > 0

\* The PUT of slot i was issued by addEntry or deleteEntry.
editOf(i) ==
    /\ requests[i].state # "idle"
    /\ requests[i].method = "PUT"
    /\ requests[i].origin.caller \in {"addEntry", "deleteEntry"}

\* The event list after the edit awaited in slot i is applied to `entries`.
applied(i, entries) ==
    IF requests[i].origin.caller = "addEntry"
    THEN Append(entries, requests[i].origin.entry)
    ELSE SelectSeq(entries, LAMBDA e : e.id # requests[i].origin.id)

\* C12: when an add or a delete reports success, other adds and deletes
\* possibly having been in flight with it, the in-memory list becomes the
\* list just before with that one edit applied: no edit reported as saved
\* before it is dropped.
C12_NoLostUpdate ==
    [][\A i \in Slots :
          (/\ editOf(i)
           /\ requests[i].state = "answered"
           /\ requests[i].response.ok
           /\ resumed(i)) =>
              currentData'.entries = applied(i, currentData.entries)]_vars

----------------------------------------------------------------------------
(* Properties of addEntry and deleteEntry (under SerialSpec)               *)

\* C13: the stored events have pairwise distinct ids, adds made within the
\* same clock reading included.
C13_IdsAreDistinct ==
    \A i, j \in DOMAIN stored : i # j => stored[i].id # stored[j].id

ids(entries) == {entries[k].id : k \in DOMAIN entries}

\* In this step deleteEntry, called with an id no stored event has, puts a
\* PUT in flight in slot j.
missingIdDeleteWrites(j) ==
    /\ isConfigured(config)
    /\ issued(j)
    /\ requests'[j].method = "PUT"
    /\ requests'[j].origin.caller = "deleteEntry"
    /\ requests'[j].origin.id \notin ids(currentData.entries)

\* C14: deleteEntry with an id that no stored event has performs no write
\* (in remote mode: issues no PUT).
C14_MissingIdDeleteIsNoOp ==
    [][\A j \in Slots : ~missingIdDeleteWrites(j)]_vars

\* C15: every stored event has one of the four categories: addEntry with
\* any other category creates and stores nothing.
C15_CategoriesAreValid ==
    \A k \in DOMAIN stored : stored[k].category \in Categories

\* C16: a step that ends in remote mode with token, owner or repo empty
\* puts no request in flight.
C16_NoRequestWhenUnconfigured ==
    [][(config'.mode = "github" /\ ~isConfigured(config')) =>
           \A j \in Slots : ~issued(j)]_vars

----------------------------------------------------------------------------
(* Properties of the local store (under SerialSpec)                        *)

asSet(entries) == {entries[k] : k \in DOMAIN entries}

\* What loadDataLocal would read back now.
reloaded == loadDataLocal(prog).currentData.entries

\* C17: in local mode the events loadDataLocal reads back are the events
\* held in memory (same ids, timestamps and categories), and after
\* clearLocalData nothing is read back.
C17_LocalRoundTrip ==
    (booted /\ config.mode = "local") =>
        /\ asSet(reloaded) = asSet(stored)
        /\ Len(reloaded) = Len(stored)
        /\ status.message = "All data cleared" => reloaded = <<>>

\* Two generated events are held and saved, or one was deleted from them.
C17_Witness ==
    /\ booted
    /\ config.mode = "local"
    /\ storage.data.present
    /\ status.message = "Saved locally"
    /\ Len(stored) = 1
    /\ Len(stored[1].id) = 2
    /\ reloaded = stored

----------------------------------------------------------------------------
(* Properties of the buckets and of the overview (under ViewSpec)          *)

dayIndex(t) == (t + tz) \div DayTicks
weekdayOf(t) == (dayIndex(t) + EpochDow) % 7

\* C18: in day mode the buckets are the calendar days from the day of the
\* window start to the day of the window end, one each, ascending, without
\* gap or duplicate; there are exactly `period` of them when the period end
\* is not after today.
C18_OneBucketPerDay ==
    (trackerChart /\ dom.chart.period <= 30) =>
        LET labels == dom.chart.data.labels
            first == dayIndex(dom.chart.startDate)
            last == dayIndex(dom.chart.endDate)
        IN /\ Len(labels) = IF last >= first THEN last - first + 1 ELSE 0
           /\ \A k \in DOMAIN labels : labels[k] = first + k - 1
           /\ (Len(stored) > 0 /\ lastWindowDay <= endOfDayOf(now)) =>
                  Len(labels) = dom.chart.period

\* A week of history behind: seven buckets.
C18_Witness ==
    /\ trackerChart
    /\ dom.chart.period = 7
    /\ Len(stored) > 0
    /\ lastWindowDay <= endOfDayOf(now)
    /\ Len(dom.chart.data.labels) = 7

\* C19: in week mode the first bucket starts on the Sunday on or before the
\* window start, consecutive buckets start 7 days apart, and the last one
\* starts on the latest such day whose midnight is not after the window end.
C19_WeekBucketStarts ==
    (trackerChart /\ dom.chart.period > 30) =>
        LET labels == dom.chart.data.labels
            sunday == dayIndex(dom.chart.startDate) - weekdayOf(dom.chart.startDate)
            midnight(day) == day * DayTicks - tz
        IN IF midnight(sunday) > dom.chart.endDate THEN labels = <<>>
           ELSE /\ Len(labels) > 0
                /\ labels[1] = sunday
                /\ \A k \in 1 .. Len(labels) - 1 : labels[k + 1] = labels[k] + 7
                /\ midnight(labels[Len(labels)]) <= dom.chart.endDate
                /\ midnight(labels[Len(labels)] + 7) > dom.chart.endDate

\* Several week buckets for a history that does not start on a Sunday.
C19_Witness ==
    /\ trackerChart
    /\ dom.chart.period > 30
    /\ weekdayOf(dom.chart.startDate) # 0
    /\ Len(dom.chart.data.labels) >= 2
    /\ (dom.chart.data.labels[1] + EpochDow) % 7 = 0

onWeekend(e) == weekdayOf(e.timestamp) \in {0, 6}

\* C20: the overview counts an event as weekend exactly when its local day
\* of week is Saturday or Sunday and as weekday otherwise; weekday and
\* weekend counts add up to the counts of the filtered set, per category
\* and in total.
C20_WeekdayWeekendPartition ==
    dom.overview.rendered =>
        LET o == dom.overview
            f == o.filteredEntries
            n(c, weekend) == Cardinality({k \in DOMAIN f :
                                 /\ f[k].category = c
                                 /\ onWeekend(f[k]) = weekend})
        IN /\ \A c \in Categories :
                 /\ o.weekendStats[c] = n(c, TRUE)
                 /\ o.weekdayStats[c] = n(c, FALSE)
                 /\ o.weekdayStats[c] + o.weekendStats[c] = o.stats[c]
           /\ o.weekdayTotal + o.weekendTotal = o.total

\* An event whose local day is a Saturday while its UTC day is a Friday is
\* counted as weekend.
C20_Witness ==
    /\ dom.overview.rendered
    /\ dom.overview.weekendTotal > 0
    /\ \E k \in DOMAIN dom.overview.filteredEntries :
          LET t == dom.overview.filteredEntries[k].timestamp
          IN weekdayOf(t) = 6 /\ (t \div DayTicks + EpochDow) % 7 = 5

----------------------------------------------------------------------------
(* Properties of mode switches and loads racing with responses (under Spec) *)

\* C21: every value written under the local data key has sha null: the
\* local blob never carries a revision of the remote repository.
C21_LocalBlobHasNoRevision ==
    storage.data.present => storage.data.text.sha = NullSha

\* The snapshot is the data file of the configured repository: same
\* content, same revision.
inSync(data) ==
    /\ config.mode = "github"
    /\ isConfigured(config)
    /\ remote[config.repo].exists
    /\ data.entries = remote[config.repo].entries
    /\ data.sha = remote[config.repo].sha

\* C22: when the last save has reported success and the snapshot equals the
\* remote file, the response of a GET of that file, the only request still
\* in flight, leaves the snapshot equal to the remote file: a response
\* produced before the save does not replace the newer entries and sha.
C22_StaleLoadKeepsSnapshot ==
    [][\A i \in Slots :
          (/\ requests[i].state = "answered"
           /\ requests[i].method = "GET"
           /\ requests[i].response.ok
           /\ requests[i].repo = config.repo
           /\ \A j \in Slots \ {i} : requests[j] = idle
           /\ status.message = "Saved successfully"
           /\ inSync(currentData)
           /\ resumed(i)) => inSync(currentData')]_vars

----------------------------------------------------------------------------
(* Properties of the status line (under TimerSpec)                         *)

\* C23: an error or info message that is visible is still visible after
\* any step: only a later showStatus replaces it, and no callback of an
\* earlier success message hides it.
C23_ErrorStaysVisible ==
    [][(status.type # "success" /\ ~status.hidden) => ~status'.hidden]_vars

====
